---- MODULE Spec2Model ----
(***************************************************************************)
(* A model of follower_analyzer/twitter_api.py (Progress, save_followers,  *)
(* search) and of the retry loops of follower_analyzer.py main().          *)
(*                                                                         *)
(* Time is counted in ticks of 1/TicksPerSec seconds, so that time.time()  *)
(* (a float) can fall between two whole seconds while the reset times of   *)
(* the rate-limit windows are whole epoch seconds.                         *)
(***************************************************************************)
EXTENDS Integers, Sequences, FiniteSets, TLC

VARIABLES
    mode,                             \* "followers" (--username) or "search" (--hashtags)
    ignore_exceptions,                \* args.ignore_exceptions
    pc,                               \* position of the process
    now,                              \* time.time(), in ticks
    progress,                         \* the Progress object (in memory)
    file,                             \* the JSON document at progress_json
    get_follower_ids_is_rate_limited, \* local flag of save_followers
    users_lookup_is_rate_limited,     \* local flag of save_followers
    search_is_rate_limited,           \* local flag of search
    hashtags,                         \* the list handed to search (mutated in place)
    index,                            \* round-robin index of search
    pass,                             \* position in ['recent', 'mixed', 'popular']
    served,                           \* number of follower ids the API has paged out so far
    saved,                            \* ids handed successfully to db.save_users, in order
    resumed,                          \* the process was started again from the file
    ev                                \* what the last step did, and what it wrote to users.dat

vars == <<mode, ignore_exceptions, pc, now, progress, file,
          get_follower_ids_is_rate_limited, users_lookup_is_rate_limited,
          search_is_rate_limited, hashtags, index, pass, served, saved, resumed, ev>>

----------------------------------------------------------------------------
(* Bounds of the model *)

TicksPerSec == 2       \* resolution of the clock
MaxTime == 6           \* last second of the clock; later times are all "MaxTime"
MaxPages == 2          \* pages the follower list has at most
MaxTweetId == 200      \* newest tweet id of a search term

PageSizes == {0, 70, 80, 130}       \* sizes of a page of follower ids
SearchPageSizes == {0, 60, 100}  \* sizes of a page of tweets
ResetDelays == {1, 2}            \* seconds from a probe to the reset it reports
ProbeRemaining == {0}            \* "remaining" a probe reports

(* Program constants *)

BatchSize == 100       \* ids per UsersLookup call, and the eligibility threshold
SearchCount == 100     \* count= of GetSearch, and the exhaustion threshold
Margin == 2            \* seconds added to every sleep
RetrySleep == 300      \* seconds main() sleeps before a retry

None == -1             \* Python's None where an int is expected (ids are >= 0)

----------------------------------------------------------------------------
(* Helpers *)

Max(a, b) == IF a >= b THEN a ELSE b
Min(a, b) == IF a <= b THEN a ELSE b

\* s[:n]
Take(s, n) == SubSeq(s, 1, Min(n, Len(s)))
\* s[n:]
Drop(s, n) == SubSeq(s, Min(n, Len(s)) + 1, Len(s))

\* int(x) of a duration of t ticks: truncation toward zero, in whole seconds
IntTrunc(t) == IF t >= 0 THEN t \div TicksPerSec ELSE -((-t) \div TicksPerSec)

\* ids m+1 .. m+n, in order
IdRange(m, n) == [i \in 1..n |-> m + i]

----------------------------------------------------------------------------
(* twitter.ratelimit.EndpointRateLimit and the JSON document *)

EndpointRateLimit(l, r, t) == [limit |-> l, remaining |-> r, reset |-> t]

\* json.dump writes a namedtuple as an array
WindowToJson(w) == <<w.limit, w.remaining, w.reset>>
\* EndpointRateLimit(*array)
WindowFromJson(a) == EndpointRateLimit(a[1], a[2], a[3])

DefaultGetFollowerIds == <<15, 15, 0>>
DefaultUsersLookup == <<900, 150, 0>>
DefaultSearch == <<180, 180, 0>>

\* Progress.save: the document written by json.dump
ProgressSave(p) ==
    [exists |-> TRUE,
     doc |-> [cursor |-> p.cursor,
              follower_ids |-> p.follower_ids,
              hashtag_max_ids |-> p.hashtag_max_ids,
              get_follower_ids_rate_limits |-> WindowToJson(p.get_follower_ids_rate_limits),
              users_lookup_rate_limits |-> WindowToJson(p.users_lookup_rate_limits),
              search_rate_limits |-> WindowToJson(p.search_rate_limits)]]

\* progress_dict.get(key, default); progress_dict is {} when the file is absent
DictGet(f, key, default) ==
    IF f.exists /\ key \in DOMAIN f.doc THEN f.doc[key] ELSE default

\* Progress.__init__
ProgressInit(f) ==
    [cursor |-> DictGet(f, "cursor", -1),
     follower_ids |-> DictGet(f, "follower_ids", <<>>),
     hashtag_max_ids |-> DictGet(f, "max_ids", <<>>),
     get_follower_ids_rate_limits |->
         WindowFromJson(DictGet(f, "get_follower_ids_rate_limits", DefaultGetFollowerIds)),
     users_lookup_rate_limits |->
         WindowFromJson(DictGet(f, "users_lookup_rate_limits", DefaultUsersLookup)),
     search_rate_limits |->
         WindowFromJson(DictGet(f, "search_rate_limits", DefaultSearch))]

NoFile == [exists |-> FALSE, doc |-> <<>>]

----------------------------------------------------------------------------
(* The environment: the clock, the API and the storage sink *)

NowSec == now \div TicksPerSec

\* now > reset, now being a float and reset an epoch second
NowAfter(reset) == now > reset * TicksPerSec

\* time.sleep(d) and the time main() sleeps; the clock stops at MaxTime
Advance(d) == Min(now + d * TicksPerSec, MaxTime * TicksPerSec)

\* api.CheckRateLimit(url): what the quota probe can report for an endpoint of
\* allowance l. Resets are later than now and leave room for the sleep.
CheckRateLimit(l) ==
    {EndpointRateLimit(l, r, NowSec + d) : r \in ProbeRemaining,
        d \in {x \in ResetDelays : NowSec + x + Margin <= MaxTime}}

\* outcomes of an API call: a result, a quota violation (TwitterError), another
\* TwitterError, or an exception of another class
ApiOutcomes == {"ok", "quota", "twitter_error", "error"}
IsTwitterError(o) == o \in {"quota", "twitter_error"}

NoWindow == EndpointRateLimit(0, 0, 0)

\* users.dat as a step leaves it: not written, or what pickle.dump wrote
NotWritten == [state |-> "absent", users |-> <<>>]
\* (mutant) the dump is opened and left empty
PickleDumpNothing(users, isNone) == [state |-> "users", users |-> <<>>]
\* pickle.dump(users, pfd): users is None when the lookup itself raised
PickleDump(users, isNone) == [state |-> IF isNone THEN "None" ELSE "users", users |-> users]

Ev(op, res, ids, win, dur) ==
    [op |-> op, res |-> res, ids |-> ids, win |-> win, dur |-> dur,
     term |-> "", max_id |-> None, dump |-> NotWritten]
EvSearch(res, term, max_id, tweets, win) ==
    [op |-> "GetSearch", res |-> res, ids |-> tweets, win |-> win, dur |-> 0,
     term |-> term, max_id |-> max_id, dump |-> NotWritten]


----------------------------------------------------------------------------
(* save_followers *)

Followers == mode = "followers"
InLoop == pc = "loop"

\* lines 65-67
SaveFollowersEnter ==
    /\ pc = "start" /\ Followers
    /\ get_follower_ids_is_rate_limited' = NowAfter(progress.get_follower_ids_rate_limits.reset)
    /\ users_lookup_is_rate_limited' = NowAfter(progress.users_lookup_rate_limits.reset)
    /\ pc' = "loop"
    /\ ev' = Ev("enter", "ok", <<>>, NoWindow, 0)
    /\ UNCHANGED <<mode, ignore_exceptions, now, progress, file, search_is_rate_limited,
                   hashtags, index, pass, served, saved, resumed>>

\* (mutant) only a full batch is eligible
LookupEligibleFullOnly(p) == Len(p.follower_ids) >= BatchSize

\* line 72: the batch is ready (or pagination is over and ids remain)
LookupEligible(p) ==
    Len(p.follower_ids) >= BatchSize \/ (p.cursor = 0 /\ Len(p.follower_ids) > 0)

\* the elif chain of lines 72-115, the exit marker being absent
EntityBranch == LookupEligible(progress) /\ ~users_lookup_is_rate_limited
SleepBranch == ~EntityBranch /\ get_follower_ids_is_rate_limited
\* (mutant) pagination goes on whatever the cursor
PageBranchAnyCursor == ~EntityBranch /\ ~get_follower_ids_is_rate_limited
\* (mutant) pagination is tested before the lookup
PageBranchFirst == ~get_follower_ids_is_rate_limited /\ progress.cursor # 0
PageBranch == ~EntityBranch /\ ~get_follower_ids_is_rate_limited /\ progress.cursor # 0
ExitBranch == ~EntityBranch /\ ~get_follower_ids_is_rate_limited /\ progress.cursor = 0

\* lines 69-71
FoundExitMarker ==
    /\ InLoop /\ Followers
    /\ pc' = "stopped"
    /\ ev' = Ev("marker", "ok", <<>>, NoWindow, 0)
    /\ UNCHANGED <<mode, ignore_exceptions, now, progress, file,
                   get_follower_ids_is_rate_limited, users_lookup_is_rate_limited,
                   search_is_rate_limited, hashtags, index, pass, served, saved, resumed>>

\* (mutant) the whole queue is sent
BatchWholeQueue(p) == p.follower_ids

\* progress.follower_ids[:100]
Batch(p) == Take(p.follower_ids, BatchSize)
\* progress.follower_ids[100:]
AfterBatch(p) == Drop(p.follower_ids, BatchSize)

\* lines 74-90, UsersLookup and db.save_users both returning
UsersLookupOk ==
    /\ InLoop /\ Followers /\ EntityBranch
    /\ progress' = [progress EXCEPT !.follower_ids = AfterBatch(progress)]
    /\ file' = ProgressSave(progress')
    /\ saved' = saved \o Batch(progress)
    /\ ev' = Ev("UsersLookup", "ok", Batch(progress), progress.users_lookup_rate_limits, 0)
    /\ UNCHANGED <<mode, ignore_exceptions, pc, now, get_follower_ids_is_rate_limited,
                   users_lookup_is_rate_limited, search_is_rate_limited, hashtags, index,
                   pass, served, resumed>>

\* (mutant) the probe result is stored in the window of the other endpoint
UsersLookupTwitterErrorWrongWindow ==
    /\ pc = "loop" /\ mode = "followers"
    /\ (Len(progress.follower_ids) >= BatchSize
           \/ (progress.cursor = 0 /\ Len(progress.follower_ids) > 0))
    /\ ~users_lookup_is_rate_limited
    /\ \E o \in {"quota", "twitter_error"} :
       \E w \in CheckRateLimit(progress.users_lookup_rate_limits.limit) :
          /\ users_lookup_is_rate_limited' = TRUE
          /\ progress' = [progress EXCEPT !.get_follower_ids_rate_limits = w]
          /\ ev' = Ev("UsersLookup", o, Take(progress.follower_ids, BatchSize),
                      progress.users_lookup_rate_limits, 0)
    /\ file' = ProgressSave(progress')
    /\ UNCHANGED <<mode, ignore_exceptions, pc, now, get_follower_ids_is_rate_limited,
                   search_is_rate_limited, hashtags, index, pass, served, saved,
                   resumed>>

\* lines 80-83 and 89-90: UsersLookup raises a TwitterError
UsersLookupTwitterError ==
    /\ InLoop /\ Followers /\ EntityBranch
    /\ \E o \in {x \in ApiOutcomes : IsTwitterError(x)} :
       \E w \in CheckRateLimit(progress.users_lookup_rate_limits.limit) :
          /\ users_lookup_is_rate_limited' = TRUE
          /\ progress' = [progress EXCEPT !.users_lookup_rate_limits = w]
          /\ ev' = Ev("UsersLookup", o, Batch(progress), progress.users_lookup_rate_limits, 0)
    /\ file' = ProgressSave(progress')
    /\ UNCHANGED <<mode, ignore_exceptions, pc, now, get_follower_ids_is_rate_limited,
                   search_is_rate_limited, hashtags, index, pass, served, saved, resumed>>

\* (mutant) the ids are sliced off the queue before db.save_users is called
UsersLookupRaisesAfterSlice ==
    /\ pc = "loop" /\ mode = "followers"
    /\ (Len(progress.follower_ids) >= BatchSize
           \/ (progress.cursor = 0 /\ Len(progress.follower_ids) > 0))
    /\ ~users_lookup_is_rate_limited
    /\ \E o \in {"error", "db_error"} :
          /\ progress' = [progress EXCEPT !.follower_ids =
                              IF o = "db_error" THEN Drop(progress.follower_ids, BatchSize)
                              ELSE progress.follower_ids]
          /\ ev' = [Ev("UsersLookup", o, Take(progress.follower_ids, BatchSize),
                       progress.users_lookup_rate_limits, 0)
                      EXCEPT !.dump = PickleDump(IF o = "db_error"
                                                 THEN Take(progress.follower_ids, BatchSize)
                                                 ELSE <<>>, o = "error")]
    /\ file' = ProgressSave(progress')
    /\ pc' = "raised"
    /\ UNCHANGED <<mode, ignore_exceptions, now, get_follower_ids_is_rate_limited,
                   users_lookup_is_rate_limited, search_is_rate_limited, hashtags, index,
                   pass, served, saved, resumed>>

\* lines 84-90: UsersLookup raises another exception (users is still None), or
\* db.save_users raises
UsersLookupRaises ==
    /\ InLoop /\ Followers /\ EntityBranch
    /\ \E o \in {"error", "db_error"} :
          ev' = [Ev("UsersLookup", o, Batch(progress), progress.users_lookup_rate_limits, 0)
                   EXCEPT !.dump = PickleDump(IF o = "db_error" THEN Batch(progress)
                                              ELSE <<>>, o = "error")]
    /\ file' = ProgressSave(progress)
    /\ pc' = "raised"
    /\ UNCHANGED <<mode, ignore_exceptions, now, progress, get_follower_ids_is_rate_limited,
                   users_lookup_is_rate_limited, search_is_rate_limited, hashtags, index,
                   pass, served, saved, resumed>>

\* lines 92-96
ClosestReset(p) ==
    IF Len(p.follower_ids) >= BatchSize
       /\ p.get_follower_ids_rate_limits.reset > p.users_lookup_rate_limits.reset
    THEN p.users_lookup_rate_limits.reset
    ELSE p.get_follower_ids_rate_limits.reset

\* line 97 (and 166): max(int(closest_rate_limit_reset - time.time()) + 2, 0)
Duration(reset) == Max(IntTrunc(reset * TicksPerSec - now) + Margin, 0)

\* (mutant) the flags are left as they were
SleepKeepsFlags ==
    /\ pc = "loop" /\ mode = "followers"
    /\ ~((Len(progress.follower_ids) >= BatchSize
             \/ (progress.cursor = 0 /\ Len(progress.follower_ids) > 0))
           /\ ~users_lookup_is_rate_limited)
    /\ get_follower_ids_is_rate_limited
    /\ now' = Advance(Duration(ClosestReset(progress)))
    /\ ev' = Ev("sleep", "ok", <<>>, NoWindow, Duration(ClosestReset(progress)))
    /\ UNCHANGED <<mode, ignore_exceptions, pc, progress, file,
                   get_follower_ids_is_rate_limited, users_lookup_is_rate_limited,
                   search_is_rate_limited, hashtags, index, pass, served, saved,
                   resumed>>

\* lines 91-101
Sleep ==
    /\ InLoop /\ Followers /\ SleepBranch
    /\ now' = Advance(Duration(ClosestReset(progress)))
    /\ get_follower_ids_is_rate_limited' = FALSE
    /\ users_lookup_is_rate_limited' = FALSE
    /\ ev' = Ev("sleep", "ok", <<>>, NoWindow, Duration(ClosestReset(progress)))
    /\ UNCHANGED <<mode, ignore_exceptions, pc, progress, file, search_is_rate_limited,
                   hashtags, index, pass, served, saved, resumed>>

\* api.GetFollowerIDsPaged: the next page has n ids; the list ends after at most
\* MaxPages pages. A nonzero next cursor is the number of pages read.
PagesRead(c) == IF c = -1 THEN 0 ELSE c
NextCursors(c) == IF PagesRead(c) + 1 >= MaxPages THEN {0} ELSE {0, PagesRead(c) + 1}

\* lines 104-107 and 113-114
GetFollowerIDsOk ==
    /\ InLoop /\ Followers /\ PageBranch
    /\ \E n \in PageSizes : \E c \in NextCursors(progress.cursor) :
          /\ progress' = [progress EXCEPT !.cursor = c,
                              !.follower_ids = progress.follower_ids \o IdRange(served, n)]
          /\ served' = served + n
          /\ ev' = Ev("GetFollowerIDsPaged", "ok", IdRange(served, n),
                      progress.get_follower_ids_rate_limits, 0)
    /\ file' = ProgressSave(progress')
    /\ UNCHANGED <<mode, ignore_exceptions, pc, now, get_follower_ids_is_rate_limited,
                   users_lookup_is_rate_limited, search_is_rate_limited, hashtags, index,
                   pass, saved, resumed>>

\* (mutant) the cursor is assigned before the call returns
GetFollowerIDsTwitterErrorCursorLost ==
    /\ pc = "loop" /\ mode = "followers"
    /\ ~((Len(progress.follower_ids) >= BatchSize
             \/ (progress.cursor = 0 /\ Len(progress.follower_ids) > 0))
           /\ ~users_lookup_is_rate_limited)
    /\ ~get_follower_ids_is_rate_limited /\ progress.cursor # 0
    /\ \E o \in {"quota", "twitter_error"} :
       \E w \in CheckRateLimit(progress.get_follower_ids_rate_limits.limit) :
          /\ get_follower_ids_is_rate_limited' = TRUE
          /\ progress' = [progress EXCEPT !.get_follower_ids_rate_limits = w, !.cursor = 0]
          /\ ev' = Ev("GetFollowerIDsPaged", o, <<>>, progress.get_follower_ids_rate_limits, 0)
    /\ file' = ProgressSave(progress')
    /\ UNCHANGED <<mode, ignore_exceptions, pc, now, users_lookup_is_rate_limited,
                   search_is_rate_limited, hashtags, index, pass, served, saved,
                   resumed>>

\* lines 108-114
GetFollowerIDsTwitterError ==
    /\ InLoop /\ Followers /\ PageBranch
    /\ \E o \in {x \in ApiOutcomes : IsTwitterError(x)} :
       \E w \in CheckRateLimit(progress.get_follower_ids_rate_limits.limit) :
          /\ get_follower_ids_is_rate_limited' = TRUE
          /\ progress' = [progress EXCEPT !.get_follower_ids_rate_limits = w]
          /\ ev' = Ev("GetFollowerIDsPaged", o, <<>>, progress.get_follower_ids_rate_limits, 0)
    /\ file' = ProgressSave(progress')
    /\ UNCHANGED <<mode, ignore_exceptions, pc, now, users_lookup_is_rate_limited,
                   search_is_rate_limited, hashtags, index, pass, served, saved, resumed>>

\* lines 104-107, 113-114: another exception leaves through the finally clause
GetFollowerIDsRaises ==
    /\ InLoop /\ Followers /\ PageBranch
    /\ file' = ProgressSave(progress)
    /\ pc' = "raised"
    /\ ev' = Ev("GetFollowerIDsPaged", "error", <<>>, progress.get_follower_ids_rate_limits, 0)
    /\ UNCHANGED <<mode, ignore_exceptions, now, progress, get_follower_ids_is_rate_limited,
                   users_lookup_is_rate_limited, search_is_rate_limited, hashtags, index,
                   pass, served, saved, resumed>>

\* lines 115-122
Exit ==
    /\ InLoop /\ Followers /\ ExitBranch
    /\ pc' = "done"
    /\ ev' = Ev("exit", "ok", <<>>, NoWindow, 0)
    /\ UNCHANGED <<mode, ignore_exceptions, now, progress, file,
                   get_follower_ids_is_rate_limited, users_lookup_is_rate_limited,
                   search_is_rate_limited, hashtags, index, pass, served, saved, resumed>>

----------------------------------------------------------------------------
(* search *)

Searching == mode = "search"

\* main(): sorted(list(hashtags)) for a file holding the one line "a"
SortedHashtags == <<"#a", "a">>

\* lines 128-130; the list argument is built by the caller at each call
SearchEnter ==
    /\ pc = "start" /\ Searching
    /\ search_is_rate_limited' = NowAfter(progress.search_rate_limits.reset)
    /\ index' = 0
    /\ hashtags' = SortedHashtags
    /\ pc' = "loop"
    /\ ev' = Ev("enter", "ok", <<>>, NoWindow, 0)
    /\ UNCHANGED <<mode, ignore_exceptions, now, progress, file,
                   get_follower_ids_is_rate_limited, users_lookup_is_rate_limited,
                   pass, served, saved, resumed>>

\* lines 132-134
NoHashtags ==
    /\ InLoop /\ Searching
    /\ Len(hashtags) = 0
    /\ pc' = "done"
    /\ ev' = Ev("exit", "ok", <<>>, NoWindow, 0)
    /\ UNCHANGED <<mode, ignore_exceptions, now, progress, file,
                   get_follower_ids_is_rate_limited, users_lookup_is_rate_limited,
                   search_is_rate_limited, hashtags, index, pass, served, saved, resumed>>

\* lines 135-137
SearchFoundExitMarker ==
    /\ InLoop /\ Searching
    /\ Len(hashtags) # 0
    /\ pc' = "stopped"
    /\ ev' = Ev("marker", "ok", <<>>, NoWindow, 0)
    /\ UNCHANGED <<mode, ignore_exceptions, now, progress, file,
                   get_follower_ids_is_rate_limited, users_lookup_is_rate_limited,
                   search_is_rate_limited, hashtags, index, pass, served, saved, resumed>>

\* lines 139-140: the (0-based) index used to select the term
SelectIndex == IF index >= Len(hashtags) \/ index < 0 THEN index % Len(hashtags) ELSE index
\* line 141
CurrentHashtag == hashtags[SelectIndex + 1]

\* progress.hashtag_max_ids.get(current_hashtag)
MaxIdGet(m, h) == IF h \in DOMAIN m THEN m[h] ELSE None
\* (mutant) the mapping is replaced by one holding the current term only
MaxIdSetOnly(m, h, v) == [k \in {h} |-> v]
\* progress.hashtag_max_ids[current_hashtag] = v
MaxIdSet(m, h, v) == [k \in DOMAIN m \cup {h} |-> IF k = h THEN v ELSE m[k]]

\* hashtags.remove(current_hashtag): the first occurrence
RECURSIVE ListRemove(_, _)
ListRemove(l, h) ==
    IF l = <<>> THEN <<>>
    ELSE IF Head(l) = h THEN Tail(l)
    ELSE <<Head(l)>> \o ListRemove(Tail(l), h)

\* api.GetSearch(count=100, max_id=m): the n newest tweets with id <= m (no
\* limit when m is None), newest first
TopId(m) == IF m = None THEN MaxTweetId ELSE m
GetSearch(m, n) == [i \in 1..n |-> TopId(m) - i + 1]
SearchPages(m) == {GetSearch(m, n) : n \in {x \in SearchPageSizes : x <= TopId(m)}}

\* (mutant) the watermark is never written
MaxIdsAfterKeep(m, h, tweets) == m

\* lines 150-157 on the tweets of one page
MaxIdsAfter(m, h, tweets) ==
    IF Len(tweets) > 0 THEN MaxIdSet(m, h, tweets[Len(tweets)] - 1) ELSE m
\* (mutant) a full page counts as the last one
ExhaustedAtFullPage(tweets) == Len(tweets) <= SearchCount
\* line 150
Exhausted(tweets) == Len(tweets) < SearchCount

\* db.save_tweets(db_conn, tweets): the storage sink for posts returns or raises
SaveTweetsOutcomes == {"ok", "db_error"}

\* lines 138-157 and 162-163, GetSearch and db.save_tweets both returning
SearchOk ==
    /\ InLoop /\ Searching /\ Len(hashtags) # 0 /\ ~search_is_rate_limited
    /\ \E tweets \in SearchPages(MaxIdGet(progress.hashtag_max_ids, CurrentHashtag)) :
          /\ hashtags' = IF Exhausted(tweets) THEN ListRemove(hashtags, CurrentHashtag)
                         ELSE hashtags
          /\ index' = IF Exhausted(tweets) THEN SelectIndex + 1 - 1 ELSE SelectIndex + 1
          /\ progress' = [progress EXCEPT !.hashtag_max_ids =
                              MaxIdsAfter(progress.hashtag_max_ids, CurrentHashtag, tweets)]
          /\ ev' = EvSearch("ok", CurrentHashtag,
                            MaxIdGet(progress.hashtag_max_ids, CurrentHashtag), tweets,
                            progress.search_rate_limits)
    /\ file' = ProgressSave(progress')
    /\ UNCHANGED <<mode, ignore_exceptions, pc, now, get_follower_ids_is_rate_limited,
                   users_lookup_is_rate_limited, search_is_rate_limited, pass, served,
                   saved, resumed>>

\* lines 158-163
SearchTwitterError ==
    /\ InLoop /\ Searching /\ Len(hashtags) # 0 /\ ~search_is_rate_limited
    /\ \E o \in {x \in ApiOutcomes : IsTwitterError(x)} :
       \E w \in CheckRateLimit(progress.search_rate_limits.limit) :
          /\ search_is_rate_limited' = TRUE
          /\ progress' = [progress EXCEPT !.search_rate_limits = w]
          /\ ev' = EvSearch(o, CurrentHashtag,
                            MaxIdGet(progress.hashtag_max_ids, CurrentHashtag), <<>>,
                            progress.search_rate_limits)
    /\ index' = SelectIndex + 1
    /\ file' = ProgressSave(progress')
    /\ UNCHANGED <<mode, ignore_exceptions, pc, now, get_follower_ids_is_rate_limited,
                   users_lookup_is_rate_limited, hashtags, pass, served, saved, resumed>>

\* lines 144-148, 162-163: GetSearch raises another exception, or db.save_tweets
\* raises; the error leaves through the finally clause
SearchRaises ==
    /\ InLoop /\ Searching /\ Len(hashtags) # 0 /\ ~search_is_rate_limited
    /\ \E o \in {"error"} \cup (SaveTweetsOutcomes \ {"ok"}) :
          ev' = EvSearch(o, CurrentHashtag,
                         MaxIdGet(progress.hashtag_max_ids, CurrentHashtag), <<>>,
                         progress.search_rate_limits)
    /\ index' = SelectIndex + 1
    /\ file' = ProgressSave(progress)
    /\ pc' = "raised"
    /\ UNCHANGED <<mode, ignore_exceptions, now, progress, get_follower_ids_is_rate_limited,
                   users_lookup_is_rate_limited, search_is_rate_limited, hashtags, pass,
                   served, saved, resumed>>

\* lines 164-169
SearchSleep ==
    /\ InLoop /\ Searching /\ Len(hashtags) # 0 /\ search_is_rate_limited
    /\ now' = Advance(Duration(progress.search_rate_limits.reset))
    /\ search_is_rate_limited' = FALSE
    /\ ev' = Ev("sleep", "ok", <<>>, NoWindow, Duration(progress.search_rate_limits.reset))
    /\ UNCHANGED <<mode, ignore_exceptions, pc, progress, file,
                   get_follower_ids_is_rate_limited, users_lookup_is_rate_limited,
                   hashtags, index, pass, served, saved, resumed>>

----------------------------------------------------------------------------
(* main(), the clock and the operator *)

ResultTypes == <<"recent", "mixed", "popular">>

\* follower_analyzer.py lines 73-78: search returned, the next result type follows
NextResultType ==
    /\ Searching /\ pc \in {"stopped", "done"}
    /\ pass < Len(ResultTypes)
    /\ pass' = pass + 1
    /\ pc' = "start"
    /\ ev' = Ev("pass", "ok", <<>>, NoWindow, 0)
    /\ UNCHANGED <<mode, ignore_exceptions, now, progress, file,
                   get_follower_ids_is_rate_limited, users_lookup_is_rate_limited,
                   search_is_rate_limited, hashtags, index, served, saved, resumed>>

\* (mutant) the next call is made with a newly built Progress
RetryNewProgress ==
    /\ pc = "raised" /\ ignore_exceptions
    /\ now' = Advance(RetrySleep)
    /\ progress' = ProgressInit(NoFile)
    /\ pc' = "start"
    /\ ev' = Ev("retry", "ok", <<>>, NoWindow, RetrySleep)
    /\ UNCHANGED <<mode, ignore_exceptions, file,
                   get_follower_ids_is_rate_limited, users_lookup_is_rate_limited,
                   search_is_rate_limited, hashtags, index, pass, served, saved, resumed>>

\* follower_analyzer.py lines 52-55 and 79-82: sleep, then call again with the same
\* Progress object
Retry ==
    /\ pc = "raised" /\ ignore_exceptions
    /\ now' = Advance(RetrySleep)
    /\ pc' = "start"
    /\ ev' = Ev("retry", "ok", <<>>, NoWindow, RetrySleep)
    /\ UNCHANGED <<mode, ignore_exceptions, progress, file,
                   get_follower_ids_is_rate_limited, users_lookup_is_rate_limited,
                   search_is_rate_limited, hashtags, index, pass, served, saved, resumed>>

\* time passes between two steps
Tick ==
    /\ now < MaxTime * TicksPerSec
    /\ now' = now + 1
    /\ ev' = Ev("tick", "ok", <<>>, NoWindow, 0)
    /\ UNCHANGED <<mode, ignore_exceptions, pc, progress, file,
                   get_follower_ids_is_rate_limited, users_lookup_is_rate_limited,
                   search_is_rate_limited, hashtags, index, pass, served, saved, resumed>>

\* the process has ended or is killed between two steps, and is started again with
\* the same arguments: follower_analyzer.py line 44 builds Progress from the file
Restart ==
    /\ pc \in {"loop", "stopped", "done", "raised"}
    /\ progress' = ProgressInit(file)
    /\ pc' = "start"
    /\ pass' = 1
    /\ resumed' = TRUE
    /\ ev' = Ev("restart", "ok", <<>>, NoWindow, 0)
    /\ UNCHANGED <<mode, ignore_exceptions, now, file,
                   get_follower_ids_is_rate_limited, users_lookup_is_rate_limited,
                   search_is_rate_limited, hashtags, index, served, saved>>

Init ==
    /\ mode \in {"followers", "search"}
    /\ ignore_exceptions \in BOOLEAN
    /\ pc = "start"
    /\ now = Margin * TicksPerSec   \* the epoch (reset 0 of the defaults) is long past
    /\ file = NoFile
    /\ progress = ProgressInit(file)
    /\ get_follower_ids_is_rate_limited = FALSE
    /\ users_lookup_is_rate_limited = FALSE
    /\ search_is_rate_limited = FALSE
    /\ hashtags = <<>>
    /\ index = 0
    /\ pass = 1
    /\ served = 0
    /\ saved = <<>>
    /\ resumed = FALSE
    /\ ev = Ev("init", "ok", <<>>, NoWindow, 0)

Next ==
    \/ SaveFollowersEnter
    \/ FoundExitMarker
    \/ UsersLookupOk
    \/ UsersLookupTwitterError
    \/ UsersLookupRaises
    \/ Sleep
    \/ GetFollowerIDsOk
    \/ GetFollowerIDsTwitterError
    \/ GetFollowerIDsRaises
    \/ Exit
    \/ SearchEnter
    \/ NoHashtags
    \/ SearchFoundExitMarker
    \/ SearchOk
    \/ SearchTwitterError
    \/ SearchRaises
    \/ SearchSleep
    \/ NextResultType
    \/ Retry
    \/ Tick
    \/ Restart

Spec == Init /\ [][Next]_vars

\* main() with --username only
NextFollowers ==
    \/ SaveFollowersEnter
    \/ FoundExitMarker
    \/ UsersLookupOk
    \/ UsersLookupTwitterError
    \/ UsersLookupRaises
    \/ Sleep
    \/ GetFollowerIDsOk
    \/ GetFollowerIDsTwitterError
    \/ GetFollowerIDsRaises
    \/ Exit
    \/ Retry
    \/ Tick
    \/ Restart

InitFollowers == Init /\ mode = "followers"

SpecFollowers == InitFollowers /\ [][NextFollowers]_vars

\* the process is killed and started again at most once
RestartOnce == ~resumed /\ Restart

\* save_followers left to run from a fresh checkpoint or from any checkpoint an
\* earlier process left: no stop marker, no fatal error; the clock advances with
\* the sleeps. The loop is sequential, so a step that stays possible is taken.
NextFollowersLive ==
    \/ SaveFollowersEnter
    \/ UsersLookupOk
    \/ UsersLookupTwitterError
    \/ Sleep
    \/ GetFollowerIDsOk
    \/ GetFollowerIDsTwitterError
    \/ Exit
    \/ RestartOnce

SpecFollowersLive ==
    /\ InitFollowers
    /\ [][NextFollowersLive]_vars
    /\ WF_vars(SaveFollowersEnter)
    /\ WF_vars(UsersLookupOk)
    /\ WF_vars(Sleep)
    /\ WF_vars(GetFollowerIDsOk)
    /\ WF_vars(Exit)

\* main() with --hashtags only
NextSearch ==
    \/ SearchEnter
    \/ NoHashtags
    \/ SearchFoundExitMarker
    \/ SearchOk
    \/ SearchTwitterError
    \/ SearchRaises
    \/ SearchSleep
    \/ NextResultType
    \/ Retry
    \/ Tick
    \/ Restart

InitSearch == Init /\ mode = "search"

SpecSearch == InitSearch /\ [][NextSearch]_vars

\* one call of search() left to run: no stop marker, no fatal error, the process
\* not killed. The loop is sequential, so a step that stays possible is taken.
NextSearchLive ==
    \/ SearchEnter
    \/ NoHashtags
    \/ SearchOk
    \/ SearchTwitterError
    \/ SearchSleep
    \/ Tick

SpecSearchLive ==
    /\ InitSearch
    /\ [][NextSearchLive]_vars
    /\ WF_vars(SearchEnter)
    /\ WF_vars(NoHashtags)
    /\ WF_vars(SearchOk)
    /\ WF_vars(SearchSleep)

----------------------------------------------------------------------------
(* Claims *)

NetworkCalls == {"UsersLookup", "GetFollowerIDsPaged", "GetSearch"}
PendingIds == progress.follower_ids

\* C1: no list-IDs, entity-lookup or search call is issued against an endpoint
\* whose tracked window has remaining <= 0 and a reset time still ahead of now.
QuotaCompliance ==
    ev.op \in NetworkCalls =>
        ~(ev.win.remaining <= 0 /\ now < ev.win.reset * TicksPerSec)

\* C2: without the stop signal and without a fatal error, save_followers returns
\* only with pagination exhausted and no identifier queued.
SuccessTerminalState ==
    (mode = "followers" /\ pc = "done") =>
        (progress.cursor = 0 /\ PendingIds = <<>>)

\* C3: a run that was stopped and started again from the flushed checkpoint ends
\* in the terminal checkpoint (cursor 0, nothing pending) with every paginated
\* identifier fetched and stored exactly once.
Resumability ==
    (mode = "followers" /\ resumed /\ pc = "done") =>
        /\ saved = [i \in 1..served |-> i]
        /\ ProgressInit(file).cursor = 0
        /\ ProgressInit(file).follower_ids = <<>>

\* C4: Progress.save() followed by Progress(path) restores every field.
CheckpointRoundTrip == ProgressInit(ProgressSave(progress)) = progress

\* C5: an entity lookup carries exactly the first min(100, len(pendingIds))
\* identifiers of the queue, in order, and never more than 100.
BatchBounds ==
    [][ev'.op = "UsersLookup" =>
          /\ Len(ev'.ids) <= 100
          /\ Len(ev'.ids) = (IF Len(PendingIds) < 100 THEN Len(PendingIds) ELSE 100)
          /\ \A i \in 1..Len(ev'.ids) : ev'.ids[i] = PendingIds[i]]_vars

\* C5 witness: a lookup was made from a queue longer than 100 and carried 100 ids
BatchBoundsWitness ==
    /\ ev.op = "UsersLookup" /\ ev.res = "ok"
    /\ Len(ev.ids) = 100
    /\ PendingIds # <<>>

\* C6: once pagination is exhausted with 1..99 identifiers pending, save_followers
\* does not stop (absent the stop signal and fatal errors) with them still pending.
FinalPartialFlush ==
    (mode = "followers" /\ pc = "done" /\ progress.cursor = 0) =>
        ~(Len(PendingIds) >= 1 /\ Len(PendingIds) <= 99)

\* C7: pendingIds shrinks only in an entity step whose lookup and upsert both
\* succeeded, and then loses exactly the batch; in every other step it is
\* unchanged or grows at its tail.
ShrinksOnlyOnSuccess ==
    [][IF ev'.op = "UsersLookup" /\ ev'.res = "ok"
       THEN /\ PendingIds = ev'.ids \o progress'.follower_ids
            /\ ev'.ids # <<>>
            /\ saved' = saved \o ev'.ids
       ELSE /\ Len(progress'.follower_ids) >= Len(PendingIds)
            /\ SubSeq(progress'.follower_ids, 1, Len(PendingIds)) = PendingIds
            /\ saved' = saved]_vars

\* C7 witness: the final partial batch was fetched, stored and removed
ShrinksOnlyOnSuccessWitness ==
    /\ ev.op = "UsersLookup" /\ ev.res = "ok"
    /\ Len(ev.ids) < 100
    /\ PendingIds = <<>>
    /\ saved # <<>>

\* C8: when the lookup succeeds and the upsert raises, the batch is in users.dat,
\* the error has left save_followers, and the batch is still at the head of
\* pendingIds, in memory and in the flushed checkpoint.
StorageFailure ==
    (ev.op = "UsersLookup" /\ ev.res = "db_error") =>
        /\ pc = "raised"
        /\ ev.dump = [state |-> "users", users |-> ev.ids]
        /\ ev.ids # <<>>
        /\ SubSeq(PendingIds, 1, Len(ev.ids)) = ev.ids
        /\ file.exists
        /\ ProgressInit(file).follower_ids = PendingIds

\* C8 witness: the upsert of a full batch raised
StorageFailureWitness ==
    /\ ev.op = "UsersLookup" /\ ev.res = "db_error"
    /\ Len(ev.ids) = 100
    /\ ev.dump.state = "users"

\* C9: a quota violation of the list-IDs call leaves cursor and pendingIds as they
\* were, replaces the ID-pagination window by a probe result, marks the endpoint
\* rate-limited, and no error leaves save_followers.
PaginationQuotaViolation ==
    [][(ev'.op = "GetFollowerIDsPaged" /\ ev'.res = "quota") =>
          /\ progress'.cursor = progress.cursor
          /\ progress'.follower_ids = PendingIds
          /\ progress'.get_follower_ids_rate_limits
                 \in CheckRateLimit(progress.get_follower_ids_rate_limits.limit)
          /\ progress'.users_lookup_rate_limits = progress.users_lookup_rate_limits
          /\ get_follower_ids_is_rate_limited'
          /\ pc' = "loop"]_vars

\* C9 witness: the list-IDs call hit the quota with identifiers queued
PaginationQuotaViolationWitness ==
    /\ ev.op = "GetFollowerIDsPaged" /\ ev.res = "quota"
    /\ get_follower_ids_is_rate_limited
    /\ progress.cursor # 0
    /\ PendingIds # <<>>

\* C10: a quota violation of the batch lookup leaves pendingIds and cursor as they
\* were, hands nothing to the storage sink, replaces the entity-lookup window by a
\* probe result, and no error leaves save_followers.
LookupQuotaViolation ==
    [][(ev'.op = "UsersLookup" /\ ev'.res = "quota") =>
          /\ progress'.follower_ids = PendingIds
          /\ progress'.cursor = progress.cursor
          /\ saved' = saved
          /\ ev'.dump.state = "absent"
          /\ progress'.users_lookup_rate_limits
                 \in CheckRateLimit(progress.users_lookup_rate_limits.limit)
          /\ progress'.get_follower_ids_rate_limits = progress.get_follower_ids_rate_limits
          /\ users_lookup_is_rate_limited'
          /\ pc' = "loop"]_vars

\* C10 witness: the batch lookup hit the quota after pagination was exhausted
LookupQuotaViolationWitness ==
    /\ ev.op = "UsersLookup" /\ ev.res = "quota"
    /\ users_lookup_is_rate_limited
    /\ progress.cursor = 0
    /\ pc = "loop"

\* C11: a failure of a list-IDs, entity-lookup or search call that is not a quota
\* violation leaves save_followers / search as an error; it is never absorbed
\* as a rate limit with the loop going on to sleep and retry.
NonQuotaFailuresFatal ==
    (ev.op \in NetworkCalls /\ ev.res \notin {"ok", "quota"}) => pc = "raised"

\* C12: inside search(), the term list loses a term exactly in a step whose
\* fetch (and store) succeeded with fewer than 100 items, and then it loses the
\* fetched term and nothing else; a page of 100 and every other step leave the
\* list as it was.
SearchExhaustion ==
    [][(mode = "search" /\ pc = "loop") =>
          IF ev'.op = "GetSearch" /\ ev'.res = "ok" /\ Len(ev'.ids) < 100
          THEN /\ \E i \in 1..Len(hashtags) : hashtags[i] = ev'.term
               /\ hashtags' = SelectSeq(hashtags, LAMBDA h : h # ev'.term)
               /\ Len(hashtags') = Len(hashtags) - 1
          ELSE hashtags' = hashtags]_vars

\* C12 witness: a term that had returned a full page before returned a short page
\* and was removed, the other term staying
SearchExhaustionWitness ==
    /\ ev.op = "GetSearch" /\ ev.res = "ok"
    /\ ev.max_id # None
    /\ Len(ev.ids) < 100 /\ Len(ev.ids) > 0
    /\ Len(hashtags) = 1 /\ hashtags[1] # ev.term

\* C13: in a running process the watermark stored for a term is never dropped
\* and never increases, whatever steps (fetches, quota violations, sleeps, passes)
\* are taken; the search endpoint returns items newest-first with ids not above
\* the supplied watermark.
WatermarkMonotonic ==
    [][ev'.op # "restart" =>
          \A h \in DOMAIN progress.hashtag_max_ids :
              /\ h \in DOMAIN progress'.hashtag_max_ids
              /\ progress'.hashtag_max_ids[h] <= progress.hashtag_max_ids[h]]_vars

\* C13 witness: both terms have a watermark, and the one fetched last had one
\* before the fetch and has a lower one now
WatermarkMonotonicWitness ==
    /\ ev.op = "GetSearch" /\ ev.res = "ok"
    /\ ev.max_id # None
    /\ Len(ev.ids) > 0
    /\ progress.hashtag_max_ids[ev.term] < ev.max_id
    /\ Cardinality(DOMAIN progress.hashtag_max_ids) = 2

\* C14: a quota violation of the search call leaves the term list, every
\* watermark and the round-robin position as they were (the term to fetch next is
\* the term whose fetch was refused, with the same watermark); only the search
\* window changes, to a probe result.
SearchQuotaViolation ==
    [][(ev'.op = "GetSearch" /\ ev'.res = "quota") =>
          /\ hashtags' = hashtags
          /\ progress'.hashtag_max_ids = progress.hashtag_max_ids
          /\ progress'.search_rate_limits \in CheckRateLimit(progress.search_rate_limits.limit)
          /\ CurrentHashtag' = ev'.term
          /\ MaxIdGet(progress'.hashtag_max_ids, CurrentHashtag') = ev'.max_id]_vars

\* C15: when the stop signal is found the loop is left in that iteration without
\* a network call, without a sleep and without a change to the checkpoint, and
\* the durable checkpoint then restores the in-memory state.
StopSignal ==
    [][ev'.op = "marker" =>
          /\ pc = "loop" /\ pc' = "stopped"
          /\ now' = now
          /\ progress' = progress
          /\ file' = file
          /\ ProgressInit(file') = progress']_vars

\* C16: every step that changes the checkpoint state flushes it in the same step,
\* and whenever the loop is about to start an iteration the durable checkpoint
\* restores the in-memory one, so that a process stopped there loses nothing.
SynchronousCheckpoint ==
    [][/\ (progress' # progress /\ ev'.op # "restart") => file' = ProgressSave(progress')
       /\ pc' = "loop" => ProgressInit(file') = progress']_vars

\* the steps of the operator and of the clock, which are no iterations of the loop
Outside == {"tick", "restart", "marker"}

\* C17: after an entity lookup hit the quota the next iteration sleeps until the
\* reset of the entity window plus the margin, whatever the cursor and the
\* ID-pagination window are; and the iteration after a sleep that finds a lookup
\* eligible issues the lookup for the batch at the head of the queue.
QuotaHitMidRun ==
    [][/\ (ev.op = "UsersLookup" /\ ev.res = "quota" /\ ev'.op \notin Outside) =>
              /\ ev'.op = "sleep"
              /\ ev'.dur = Duration(progress.users_lookup_rate_limits.reset)
              /\ progress' = progress
       /\ (ev.op = "sleep" /\ mode = "followers" /\ LookupEligible(progress)
               /\ ev'.op \notin Outside) =>
              /\ ev'.op = "UsersLookup"
              /\ ev'.ids = Batch(progress)]_vars

\* no TwitterError was handled so far: both windows are the defaults of a fresh
\* checkpoint
NoViolationYet ==
    /\ progress.get_follower_ids_rate_limits = WindowFromJson(DefaultGetFollowerIds)
    /\ progress.users_lookup_rate_limits = WindowFromJson(DefaultUsersLookup)

\* C18: in a run from a fresh checkpoint without quota violation and without
\* restart, the batches looked up so far followed by the queue are the pages
\* returned so far, in order; and when the run ends every paginated identifier
\* has been looked up exactly once and nothing is queued.
FifoCompleteness ==
    (mode = "followers" /\ ~resumed /\ NoViolationYet) =>
        /\ saved \o PendingIds = [i \in 1..served |-> i]
        /\ pc = "done" =>
              /\ progress.cursor = 0
              /\ PendingIds = <<>>
              /\ saved = [i \in 1..served |-> i]

\* C18 witness: two pages with 150 identifiers in all were looked up as the first
\* 100 and then the last 50
FifoCompletenessWitness ==
    /\ ~resumed /\ NoViolationYet
    /\ served = 150
    /\ ev.op = "UsersLookup" /\ ev.res = "ok"
    /\ ev.ids = [i \in 1..50 |-> 100 + i]
    /\ saved = [i \in 1..150 |-> i]
    /\ PendingIds = <<>>

\* C19: an iteration that finds 100 identifiers queued, or pagination exhausted
\* and an identifier queued, with the entity-lookup endpoint not marked
\* rate-limited, makes an entity lookup, never a list-IDs call or a sleep; so a
\* list-IDs call made while the endpoint is not marked finds fewer than 100
\* identifiers queued.
EntityPriority ==
    [][/\ (/\ mode = "followers" /\ pc = "loop"
           /\ (Len(PendingIds) >= 100 \/ (progress.cursor = 0 /\ Len(PendingIds) > 0))
           /\ ~users_lookup_is_rate_limited
           /\ ev'.op \notin Outside) => ev'.op = "UsersLookup"
       /\ (ev'.op = "GetFollowerIDsPaged" /\ ~users_lookup_is_rate_limited) =>
              Len(PendingIds) < 100]_vars

\* C19 witness: a lookup of 100 identifiers was made although pagination was not
\* exhausted and its endpoint not marked rate-limited
EntityPriorityWitness ==
    /\ ev.op = "UsersLookup" /\ ev.res = "ok"
    /\ Len(ev.ids) = 100
    /\ progress.cursor # 0
    /\ ~get_follower_ids_is_rate_limited
    /\ ~users_lookup_is_rate_limited

\* C20: save_followers sleeps only when neither an eligible lookup on an endpoint
\* not marked rate-limited nor a list-IDs call (cursor # 0) on an endpoint not
\* marked rate-limited is available; and when work remains and every endpoint it
\* needs is marked rate-limited, the iteration sleeps: it makes no call and does
\* not end the run.
SleepOnlyWhenBlocked ==
    [][LET eligible == Len(PendingIds) >= 100
                          \/ (progress.cursor = 0 /\ Len(PendingIds) > 0)
           paging == progress.cursor # 0
       IN  /\ (mode = "followers" /\ ev'.op = "sleep") =>
                  /\ ~(eligible /\ ~users_lookup_is_rate_limited)
                  /\ ~(paging /\ ~get_follower_ids_is_rate_limited)
           /\ (/\ mode = "followers" /\ pc = "loop"
               /\ (eligible \/ paging)
               /\ (eligible => users_lookup_is_rate_limited)
               /\ (paging => get_follower_ids_is_rate_limited)
               /\ ev'.op \notin Outside) => ev'.op = "sleep"]_vars

\* the resets of the endpoints marked rate-limited that block remaining work: the
\* list-IDs window while pagination is not exhausted, the entity window while a
\* lookup is eligible
RelevantResets ==
    (IF get_follower_ids_is_rate_limited /\ progress.cursor # 0
     THEN {progress.get_follower_ids_rate_limits.reset} ELSE {})
    \cup
    (IF users_lookup_is_rate_limited
        /\ (Len(PendingIds) >= 100 \/ (progress.cursor = 0 /\ Len(PendingIds) > 0))
     THEN {progress.users_lookup_rate_limits.reset} ELSE {})

\* the smallest of them; the epoch when there is none
EarliestRelevantReset ==
    IF RelevantResets = {} THEN 0
    ELSE CHOOSE r \in RelevantResets : \A q \in RelevantResets : r <= q

\* C21: every sleep lasts max(reset - now, 0) + 2 seconds, reset being the
\* earliest relevant reset in save_followers and the reset of the search window
\* in search; so no sleep is shorter than the margin of 2 seconds.
SleepDuration ==
    [][ev'.op = "sleep" =>
          /\ ev'.dur >= 2
          /\ ev'.dur = Max(IntTrunc((IF mode = "followers" THEN EarliestRelevantReset
                                     ELSE progress.search_rate_limits.reset)
                                    * TicksPerSec - now), 0) + 2]_vars

\* the smallest id of a page
MinId(tweets) == CHOOSE x \in {tweets[i] : i \in 1..Len(tweets)} :
                     \A j \in 1..Len(tweets) : x <= tweets[j]

\* C22: a successful search step with fewer than 100 items leaves the watermark of
\* the term as it was; one with 100 items sets it to min(returned ids) - 1 and
\* advances the round-robin index by one.
SearchWatermarkRule ==
    [][(ev'.op = "GetSearch" /\ ev'.res = "ok") =>
          IF Len(ev'.ids) < 100
          THEN MaxIdGet(progress'.hashtag_max_ids, ev'.term)
                   = MaxIdGet(progress.hashtag_max_ids, ev'.term)
          ELSE /\ MaxIdGet(progress'.hashtag_max_ids, ev'.term) = MinId(ev'.ids) - 1
               /\ index' = SelectIndex + 1]_vars

\* the term after t in the list l, cyclically
CyclicSuccessor(l, t) ==
    LET i == CHOOSE k \in 1..Len(l) : l[k] = t
    IN  l[(i % Len(l)) + 1]

\* C23: every search call is for the term at an index within 0..len-1; after a
\* successful fetch the term to fetch next is the one that followed the fetched
\* term in the list (cyclically), whether the fetched term stayed or was removed;
\* and a call that failed without ending search() does not use up the turn of
\* its term, so that between two successful fetches of a term no other term is
\* fetched twice.
RoundRobinOrder ==
    [][ev'.op = "GetSearch" =>
          /\ SelectIndex \in 0..(Len(hashtags) - 1)
          /\ ev'.term = hashtags[SelectIndex + 1]
          /\ (ev'.res = "ok" /\ hashtags' # <<>>) =>
                 CurrentHashtag' = CyclicSuccessor(hashtags, ev'.term)
          /\ (ev'.res # "ok" /\ pc' = "loop") => CurrentHashtag' = ev'.term]_vars

\* C24: with the term list empty search() makes no call and returns in that
\* iteration; and with finitely many items per term, windows that reset and no
\* fatal error, search() reaches the empty term list and stops.
SearchTermination ==
    /\ [][(mode = "search" /\ pc = "loop" /\ hashtags = <<>> /\ ev'.op # "tick") =>
              (ev'.op = "exit" /\ pc' = "done")]_vars
    /\ (mode = "search" /\ pc = "loop") ~> (pc = "done" /\ hashtags = <<>>)

\* C24 witness: search() has returned on the empty list after fetching both terms
\* and sleeping off a quota violation
SearchTerminationWitness ==
    /\ mode = "search" /\ pc = "done" /\ ev.op = "exit"
    /\ hashtags = <<>>
    /\ DOMAIN progress.hashtag_max_ids = {"#a", "a"}
    /\ progress.search_rate_limits.reset > 0

\* C25: with a finite follower list, windows that reset, no fatal error and no
\* stop signal, save_followers stops, from a fresh checkpoint and from every
\* checkpoint an earlier process left; and a sleep is never directly followed by
\* another sleep.
FollowersTermination ==
    /\ [][(ev.op = "sleep" /\ pc = "loop") => ev'.op # "sleep"]_vars
    /\ (mode = "followers" /\ pc = "loop") ~> (pc = "done")

\* C25 witness: a run started from the checkpoint of a killed process has returned
\* after a quota violation and a sleep
FollowersTerminationWitness ==
    /\ mode = "followers" /\ pc = "done" /\ ev.op = "exit"
    /\ resumed
    /\ served > 0
    /\ progress.get_follower_ids_rate_limits.reset > 0

\* C26: a stored window changes only in the step in which the call to its own
\* endpoint signalled a quota violation; it is then replaced by the probe result
\* and the two other windows stay as they were. Successful calls, sleeps and the
\* stop check change no window.
WindowsChangeOnlyByProbe ==
    [][/\ progress'.get_follower_ids_rate_limits # progress.get_follower_ids_rate_limits =>
              /\ ev'.op = "GetFollowerIDsPaged" /\ ev'.res = "quota"
              /\ progress'.get_follower_ids_rate_limits
                     \in CheckRateLimit(progress.get_follower_ids_rate_limits.limit)
              /\ progress'.users_lookup_rate_limits = progress.users_lookup_rate_limits
              /\ progress'.search_rate_limits = progress.search_rate_limits
       /\ progress'.users_lookup_rate_limits # progress.users_lookup_rate_limits =>
              /\ ev'.op = "UsersLookup" /\ ev'.res = "quota"
              /\ progress'.users_lookup_rate_limits
                     \in CheckRateLimit(progress.users_lookup_rate_limits.limit)
              /\ progress'.get_follower_ids_rate_limits = progress.get_follower_ids_rate_limits
              /\ progress'.search_rate_limits = progress.search_rate_limits
       /\ progress'.search_rate_limits # progress.search_rate_limits =>
              /\ ev'.op = "GetSearch" /\ ev'.res = "quota"
              /\ progress'.search_rate_limits
                     \in CheckRateLimit(progress.search_rate_limits.limit)
              /\ progress'.get_follower_ids_rate_limits = progress.get_follower_ids_rate_limits
              /\ progress'.users_lookup_rate_limits = progress.users_lookup_rate_limits]_vars

\* C27: no list-IDs call is made with cursor = 0 and no entity lookup with an
\* empty list; a cursor of 0 stays 0; and after the first page of an empty
\* account (no identifier, next cursor 0) the run stops without any lookup.
ActionPreconditions ==
    [][/\ ev'.op = "GetFollowerIDsPaged" => progress.cursor # 0
       /\ ev'.op = "UsersLookup" => ev'.ids # <<>>
       /\ (mode = "followers" /\ progress.cursor = 0) => progress'.cursor = 0
       /\ (/\ ev.op = "GetFollowerIDsPaged" /\ ev.res = "ok"
           /\ served = 0 /\ progress.cursor = 0
           /\ ev'.op \notin Outside) => (ev'.op = "exit" /\ pc' = "done" /\ saved' = <<>>)]_vars

\* C27 witness: the run on an empty account has stopped after its one page
ActionPreconditionsWitness ==
    /\ mode = "followers" /\ pc = "done" /\ ev.op = "exit"
    /\ served = 0 /\ saved = <<>>
    /\ progress.cursor = 0
    /\ file.exists
    /\ ~resumed

\* C28: the key of a term is removed from hashtag_max_ids in the step in which the
\* term is exhausted (a successful page of fewer than 100 items), and when search
\* stops because no term remains the map is empty.
SearchCursorsTrackActive ==
    [][/\ (ev'.op = "GetSearch" /\ ev'.res = "ok" /\ Len(ev'.ids) < SearchCount)
           => ev'.term \notin DOMAIN progress'.hashtag_max_ids
       /\ (mode = "search" /\ ev'.op = "exit" /\ pc' = "done")
           => DOMAIN progress'.hashtag_max_ids = {}]_vars

\* C29: when save_followers or search starts, an endpoint is flagged rate-limited
\* only if the reset time of its stored window is still ahead (now < reset); and
\* the first action after a fresh start (reset = 0) is a network call, not a sleep.
StartUpFlags ==
    [][/\ ev'.op = "enter" =>
            /\ (mode = "followers" /\ get_follower_ids_is_rate_limited')
                   => now < progress.get_follower_ids_rate_limits.reset * TicksPerSec
            /\ (mode = "followers" /\ users_lookup_is_rate_limited')
                   => now < progress.users_lookup_rate_limits.reset * TicksPerSec
            /\ (mode = "search" /\ search_is_rate_limited')
                   => now < progress.search_rate_limits.reset * TicksPerSec
       /\ (ev.op = "enter" /\ ~resumed /\ pass = 1 /\ ~file.exists /\ ev'.op \notin Outside)
            => ev'.op \in NetworkCalls]_vars

\* C30: in a process that started without a checkpoint, the first search call of
\* each pass (index 0 with the full term list: no call was made in this pass yet)
\* passes the watermark None, whatever the earlier passes wrote.
IndependentPasses ==
    [][(/\ mode = "search" /\ pc = "loop" /\ ~resumed
        /\ index = 0 /\ hashtags = SortedHashtags
        /\ ev'.op = "GetSearch") => ev'.max_id = None]_vars

\* the identifiers of a sequence
IdsOf(s) == {s[i] : i \in 1..Len(s)}

\* C31: with ignore_exceptions set, an error raised by save_followers is followed
\* by a sleep of 300 s and a new call of save_followers with the Progress object
\* unchanged, and main() retries only after an error; identifiers already removed
\* from follower_ids are never sent to UsersLookup again; with ignore_exceptions
\* unset nothing of the process runs after the error.
ProcessLevelRetry ==
    [][/\ mode = "followers" =>
            /\ (pc = "raised" /\ ignore_exceptions /\ ev'.op \notin Outside)
                   => /\ ev'.op = "retry" /\ ev'.dur = 300
                      /\ now' = Min(now + 300 * TicksPerSec, MaxTime * TicksPerSec)
                      /\ pc' = "start"
                      /\ progress' = progress /\ saved' = saved
            /\ (pc = "start" /\ ev'.op \notin Outside)
                   => (ev'.op = "enter" /\ pc' = "loop" /\ progress' = progress)
            /\ ev'.op = "retry" => (pc = "raised" /\ ignore_exceptions)
            /\ (pc = "raised" /\ ~ignore_exceptions) => ev'.op \in Outside
            /\ pc' = "raised" => (pc = "raised" \/ ev'.res \in {"error", "db_error"})
       /\ ev'.op = "UsersLookup" => IdsOf(ev'.ids) \cap IdsOf(saved) = {}]_vars

\* C31 witness: after a batch of 100 was looked up and removed, the lookup of the
\* remaining 30 identifiers raised, main() slept and is about to call again
ProcessLevelRetryWitness ==
    /\ mode = "followers" /\ ignore_exceptions /\ ~resumed
    /\ pc = "start" /\ ev.op = "retry"
    /\ Len(saved) = 100 /\ Len(progress.follower_ids) = 30

====
